---- MODULE Spec2Model ----
(***************************************************************************)
(* A model of QueryTypesGenerator                                          *)
(* (src/graphql_sdk_gen/generators/query_types.py).                        *)
(*                                                                         *)
(* A generator is constructed from a schema, the two registries `fields`   *)
(* and `class_types`, one operation and a fragment table.  The constructor *)
(* runs _parse_query, which fills public_names, class_defs, used_enums and *)
(* used_fragments_names; generate and get_operation_as_str read them.      *)
(*                                                                         *)
(* Python strings are TLA+ strings.  The id of an ast.Name is a sequence   *)
(* of tokens, each either the double-quote character or a run of other     *)
(* characters, so that the quoting tests and replace('"', "") of the code  *)
(* are computed and not assumed.                                           *)
(***************************************************************************)
EXTENDS Integers, Sequences, FiniteSets, TLC

VARIABLES
    schema,                 \* self.schema: query_type and mutation_type
    fields,                 \* self.fields: type name -> field name -> definition
    class_types,            \* self.class_types: type name -> ClassType
    query,                  \* self.query: [name, operation, selections]
    fragments_definitions,  \* self.fragments_definitions
    base_model_import,      \* the constructor's base_model_import argument
    status,                 \* "new", "ready" (constructed) or "failed" (raised)
    error,                  \* the exception that ended the constructor, or NoError
    imports,                \* self.imports
    public_names,           \* self.public_names
    class_defs,             \* self.class_defs
    used_enums,             \* self.used_enums
    used_fragments_names,   \* self.used_fragments_names
    returned,               \* what the last call of a public method returned
    calls,                  \* public method calls made so far
    stack,                  \* call stack of the stepwise constructor (SpecRun)
    annotation,             \* argument of _procces_annotation (SpecAnn)
    processed               \* what _procces_annotation did with it (SpecAnn)

vars == <<schema, fields, class_types, query, fragments_definitions,
          base_model_import, status, error, imports, public_names, class_defs,
          used_enums, used_fragments_names, returned, calls, stack,
          annotation, processed>>

-----------------------------------------------------------------------------
(* Bounds of the model *)

MaxRootSel == 2       \* selections of a root selection set (Spec)
MaxRunSel == 1        \* selections of a root selection set (SpecRun)
MaxCalls == 2         \* calls of the public methods after construction
MaxAnnDepth == 2      \* nesting of the type expressions of SpecAnn
RecursionLimit == 9   \* the interpreter's limit on the depth of calls

-----------------------------------------------------------------------------
(* Values *)

None == "None"
NoError == "NoError"
Quote == "\""

SeqToSet(s) == {s[i] : i \in DOMAIN s}

RECURSIVE Flatten(_)
Flatten(ss) ==
    IF ss = <<>> THEN <<>> ELSE Head(ss) \o Flatten(Tail(ss))

RECURSIVE Text(_)
Text(tokens) ==
    IF tokens = <<>> THEN "" ELSE Head(tokens) \o Text(Tail(tokens))

(* ast nodes of a type expression *)
Name(id) == [node |-> "Name", id |-> id]
Subscript(value, slice) == [node |-> "Subscript", value |-> value, slice |-> slice]
TupleOf(elts) == [node |-> "Tuple", elts |-> elts]
ConstantNode == [node |-> "Constant"]

Plain(n) == Name(<<n>>)
Quoted(n) == Name(<<Quote, n, Quote>>)
Optional(a) == Subscript("Optional", a)
List(a) == Subscript("List", a)
Union(elts) == Subscript("Union", TupleOf(elts))

(* str.replace('"', "") *)
StripQuotes(id) == Text(SelectSeq(id, LAMBDA t : t # Quote))
StartsWithQuote(id) == id # <<>> /\ Head(id) = Quote
EndsWithQuote(id) == id # <<>> /\ id[Len(id)] = Quote

(* dict.get *)
Get(d, k) == IF k \in DOMAIN d THEN d[k] ELSE None

-----------------------------------------------------------------------------
(* Type expressions *)

RECURSIVE _walk_annotation(_)
_walk_annotation(ann) ==
    IF ann.node = "Name" THEN <<StripQuotes(ann.id)>>
    ELSE IF ann.node = "Subscript" THEN
        IF ann.slice.node = "Tuple"
        THEN Flatten([i \in DOMAIN ann.slice.elts |->
                          _walk_annotation(ann.slice.elts[i])])
        ELSE _walk_annotation(ann.slice)
    ELSE <<>>

Raised(e) == [err |-> e]
Raises(r) == r.err # NoError

(* The result is [err, ann]; err = "ParsingError" stands for the raise. *)
RECURSIVE _add_prefix_to_annotation(_, _)
_add_prefix_to_annotation(ann, prefix) ==
    IF ann.node = "Name" /\ StartsWithQuote(ann.id) /\ EndsWithQuote(ann.id)
    THEN [err |-> NoError,
          ann |-> Name(<<Quote, prefix \o StripQuotes(ann.id), Quote>>)]
    ELSE IF ann.node = "Subscript" THEN
        IF ann.slice.node = "Tuple" THEN
            LET elts == [i \in DOMAIN ann.slice.elts |->
                            _add_prefix_to_annotation(ann.slice.elts[i], prefix)]
            IN  IF \E i \in DOMAIN elts : Raises(elts[i])
                THEN Raised("ParsingError")
                ELSE [err |-> NoError,
                      ann |-> Subscript(ann.value,
                                 TupleOf([i \in DOMAIN elts |-> elts[i].ann]))]
        ELSE
            LET slice == _add_prefix_to_annotation(ann.slice, prefix)
            IN  IF Raises(slice) THEN Raised("ParsingError")
                ELSE [err |-> NoError, ann |-> Subscript(ann.value, slice.ann)]
    ELSE Raised("ParsingError")

RECURSIVE EnumsAmong(_, _)
EnumsAmong(ct, names) ==
    IF names = <<>> THEN <<>>
    ELSE (IF Get(ct, Head(names)) = "ENUM" THEN <<Head(names)>> ELSE <<>>)
         \o EnumsAmong(ct, Tail(names))

(* The result is [err, ann, used_enums]: the returned expression and       *)
(* self.used_enums after the call.                                         *)
_procces_annotation(ct, query_name, enums, ann, field_type_names) ==
    IF \E i \in DOMAIN field_type_names :
           Get(ct, field_type_names[i]) \in {"OBJECT", "INTERFACE"}
    THEN LET r == _add_prefix_to_annotation(ann, query_name)
         IN  IF Raises(r) THEN Raised("ParsingError")
             ELSE [err |-> NoError, ann |-> r.ann, used_enums |-> enums]
    ELSE [err |-> NoError, ann |-> ann,
          used_enums |-> enums \o EnumsAmong(ct, field_type_names)]

-----------------------------------------------------------------------------
(* Selections of an operation or fragment *)

FieldNode(name, selection_set) ==
    [kind |-> "Field", name |-> name, selection_set |-> selection_set]
FragmentSpreadNode(name) == [kind |-> "FragmentSpread", name |-> name]
InlineFragmentNode(type_condition, selection_set) ==
    [kind |-> "InlineFragment", type_condition |-> type_condition,
     selection_set |-> selection_set]
FragmentDefinitionNode(name, type_condition, selection_set) ==
    [name |-> name, type_condition |-> type_condition,
     selection_set |-> selection_set]
(* A field without a selection set: its selection_set is None, written as  *)
(* the empty sequence (the grammar has no empty selection set).            *)
NoSelectionSet == <<>>
Leaf(name) == FieldNode(name, NoSelectionSet)

(* root_type of the root selection set: the parameter's default *)
DefaultRootType == ""

InlineFragmentApplies(selection, root_type) ==
    selection.type_condition = root_type

(* Sequencing of calls that may raise: the rest K runs on the result of r  *)
(* unless r raised, and then the exception propagates.                     *)
Bind(r, K(_)) == IF Raises(r) THEN r ELSE K(r)

RECURSIVE _resolve_selection_set(_, _, _, _, _)
RECURSIVE ResolveSelections(_, _, _, _, _, _)

(* One iteration of the for loop of _resolve_selection_set: what the       *)
(* selection adds to the local list `fields` and to                        *)
(* self.used_fragments_names (used).  The result is [err, fields, used].   *)
ResolveSelection(used, frags, selection, root_type, depth) ==
    CASE selection.kind = "Field" ->
            [err |-> NoError, fields |-> <<selection>>, used |-> used]
      [] selection.kind = "FragmentSpread" ->
            IF selection.name \notin DOMAIN frags THEN Raised("KeyError")
            ELSE _resolve_selection_set(used \cup {selection.name}, frags,
                     frags[selection.name].selection_set, root_type, depth + 1)
      [] selection.kind = "InlineFragment" ->
            IF selection.type_condition = None THEN Raised("AttributeError")
            ELSE IF InlineFragmentApplies(selection, root_type)
            THEN _resolve_selection_set(used, frags, selection.selection_set,
                                        root_type, depth + 1)
            ELSE [err |-> NoError, fields |-> <<>>, used |-> used]

(* The for loop over the selections not yet visited; acc is `fields`.      *)
ResolveSelections(used, frags, rest, root_type, depth, acc) ==
    IF rest = <<>> THEN [err |-> NoError, fields |-> acc, used |-> used]
    ELSE Bind(ResolveSelection(used, frags, Head(rest), root_type, depth),
              LAMBDA r : ResolveSelections(r.used, frags, Tail(rest),
                             root_type, depth, acc \o r.fields))

(* depth counts the frames of the recursion; beyond the interpreter's      *)
(* limit the call raises RecursionError.                                   *)
_resolve_selection_set(used, frags, selection_set, root_type, depth) ==
    IF depth > RecursionLimit THEN Raised("RecursionError")
    ELSE ResolveSelections(used, frags, selection_set, root_type, depth, <<>>)

-----------------------------------------------------------------------------
(* Schema lookups *)

(* codegen.generate_typename_field_definition *)
generate_typename_field_definition ==
    [target |-> "__typename", annotation |-> Plain("str"),
     value |-> "Field(alias=__typename)"]

(* The result is [err, def]. *)
_get_schema_field_definition(flds, type_name, field_name) ==
    IF field_name = "__typename"
    THEN [err |-> NoError, def |-> generate_typename_field_definition]
    ELSE IF type_name \in DOMAIN flds /\ field_name \in DOMAIN flds[type_name]
    THEN [err |-> NoError, def |-> flds[type_name][field_name]]
    ELSE Raised("KeyError")

(* The result is [err, type]: the GraphQLField's type. *)
_get_field_type_from_schema(sch, operation, name) ==
    IF operation = "query" /\ sch.query_type.defined
       /\ name \in DOMAIN sch.query_type.fields
    THEN [err |-> NoError, type |-> sch.query_type.fields[name]]
    ELSE IF operation = "mutation" /\ sch.mutation_type.defined
            /\ name \in DOMAIN sch.mutation_type.fields
    THEN [err |-> NoError, type |-> sch.mutation_type.fields[name]]
    ELSE Raised("ParsingError")

(* GraphQL types of the schema's root fields *)
Named(kind, name) == [kind |-> kind, name |-> name]
NonNull(of_type) == [kind |-> "NonNull", of_type |-> of_type]
ListOf(of_type) == [kind |-> "List", of_type |-> of_type]
UnionOf(name, types) == [kind |-> "Union", name |-> name, types |-> types]

SIMPLE_TYPE_MAP ==
    [String |-> "str", ID |-> "str", Int |-> "int", Boolean |-> "bool",
     Float |-> "float"]

(* codegen.parse_field_type *)
RECURSIVE parse_field_type(_, _)
parse_field_type(type, nullable) ==
    LET wrap(a) == IF nullable THEN Optional(a) ELSE a IN
    CASE type.kind = "Scalar" ->
            wrap(Plain(IF type.name \in DOMAIN SIMPLE_TYPE_MAP
                       THEN SIMPLE_TYPE_MAP[type.name] ELSE "Any"))
      [] type.kind = "Enum" -> wrap(Plain(type.name))
      [] type.kind \in {"Object", "Interface"} -> wrap(Quoted(type.name))
      [] type.kind = "Union" ->
            wrap(Union([i \in DOMAIN type.types |->
                           parse_field_type(type.types[i], FALSE)]))
      [] type.kind = "List" -> wrap(List(parse_field_type(type.of_type, TRUE)))
      [] type.kind = "NonNull" -> parse_field_type(type.of_type, FALSE)

-----------------------------------------------------------------------------
(* The recursive synthesis of output types.                                *)
(*                                                                         *)
(* env is [schema, fields, class_types, frags, query]: what the generator  *)
(* reads.  st is [public_names, used_enums, used_fragments_names]: what    *)
(* the recursion writes.                                                   *)

generate_class_def(name) ==
    [node |-> "ClassDef", name |-> name, bases |-> <<"BaseModel">>,
     body |-> <<>>]

AnnAssign(target, ann, value, lineno) ==
    [target |-> target, annotation |-> ann, value |-> value, lineno |-> lineno]

(* Mutation: the type name comes first *)
DependencyClassNameSwapped(query_name, type_name) == type_name \o query_name

DependencyClassName(query_name, type_name) == query_name \o type_name

(* Mutation: no name is ever found registered *)
IsRegisteredNever(names, name) == FALSE

IsRegistered(names, name) == name \in SeqToSet(names)

RECURSIVE _generate_dependency_type_class(_, _, _, _, _)
RECURSIVE DependenciesOf(_, _, _, _, _, _)
RECURSIVE DependencyFields(_, _, _, _, _, _, _, _)

(* The loop `for field_type_name in field_type_names` of lines 145-151 and *)
(* 89-95; acc is what the loop has added to extra_defs.                    *)
(* The result is [err, defs, st].                                          *)
DependenciesOf(st, env, names, selection_set, acc, depth) ==
    IF names = <<>> THEN [err |-> NoError, defs |-> acc, st |-> st]
    ELSE Bind(_generate_dependency_type_class(st, env, Head(names),
                                              selection_set, depth + 1),
              LAMBDA r : DependenciesOf(r.st, env, Tail(names), selection_set,
                             IF ~r.none /\ r.defs # <<>>
                             THEN acc \o r.defs ELSE acc,
                             depth))

(* What both field loops do with a field once its definition               *)
(* (target, ann, value) is known, lines 129-151 and 82-95: the type        *)
(* expression is processed, the output field built and, under a selection  *)
(* set, the dependency types generated.                                    *)
(* The result is [err, field_def, defs, st].                               *)
EmitField(st, env, target, ann, value, field, lineno, depth) ==
    Bind(_procces_annotation(env.class_types, env.query.name, st.used_enums,
                             ann, _walk_annotation(ann)),
         LAMBDA p :
            Bind(IF field.selection_set # NoSelectionSet
                 THEN DependenciesOf([st EXCEPT !.used_enums = p.used_enums],
                          env, _walk_annotation(ann), field.selection_set,
                          <<>>, depth)
                 ELSE [err |-> NoError, defs |-> <<>>,
                       st |-> [st EXCEPT !.used_enums = p.used_enums]],
                 LAMBDA deps :
                    [err |-> NoError,
                     field_def |-> AnnAssign(target, p.ann, value, lineno),
                     defs |-> deps.defs,
                     st |-> deps.st]))

(* One iteration of the loop of lines 121-151. *)
DependencyField(st, env, type_name, field, lineno, depth) ==
    Bind(_get_schema_field_definition(env.fields, type_name, field.name),
         LAMBDA d : EmitField(st, env, d.def.target, d.def.annotation,
                              d.def.value, field, lineno, depth))

(* The loop of lines 121-151 over the resolved fields, from the field      *)
(* numbered lineno on.  The result is [err, body, extra_defs, st].         *)
DependencyFields(st, env, type_name, flds, lineno, body, extra_defs, depth) ==
    IF lineno > Len(flds)
    THEN [err |-> NoError, body |-> body, extra_defs |-> extra_defs, st |-> st]
    ELSE Bind(DependencyField(st, env, type_name, flds[lineno], lineno, depth),
              LAMBDA r : DependencyFields(r.st, env, type_name, flds,
                             lineno + 1, Append(body, r.field_def),
                             extra_defs \o r.defs, depth))

Register(names, name) == Append(names, name)

(* The result is [err, none, defs, st]; none is the early `return None`.   *)
_generate_dependency_type_class(st, env, type_name, selection_set, depth) ==
    IF depth > RecursionLimit THEN Raised("RecursionError")
    ELSE IF IsRegistered(st.public_names,
                         DependencyClassName(env.query.name, type_name))
    THEN [err |-> NoError, none |-> TRUE, defs |-> <<>>, st |-> st]
    ELSE
    Bind(_resolve_selection_set(st.used_fragments_names, env.frags,
                                selection_set, type_name, depth + 1),
         LAMBDA r :
            Bind(DependencyFields(
                     [st EXCEPT
                        !.public_names = Register(@,
                            DependencyClassName(env.query.name, type_name)),
                        !.used_fragments_names = r.used],
                     env, type_name, r.fields, 1, <<>>, <<>>, depth),
                 LAMBDA loop :
                    [err |-> NoError, none |-> FALSE,
                     defs |-> <<[generate_class_def(DependencyClassName(
                                     env.query.name, type_name))
                                 EXCEPT !.body = loop.body]>>
                              \o loop.extra_defs,
                     st |-> loop.st]))

(* One iteration of the loop of lines 75-95. *)
QueryField(st, env, field, lineno) ==
    Bind(_get_field_type_from_schema(env.schema, env.query.operation,
                                     field.name),
         LAMBDA t : EmitField(st, env, field.name,
                              parse_field_type(t.type, TRUE), None, field,
                              lineno, 0))

(* The loop of lines 75-95 over the resolved root fields.                  *)
(* The result is [err, body, extra_defs, st].                              *)
RECURSIVE QueryFields(_, _, _, _, _, _)
QueryFields(st, env, flds, lineno, body, extra_defs) ==
    IF lineno > Len(flds)
    THEN [err |-> NoError, body |-> body, extra_defs |-> extra_defs, st |-> st]
    ELSE Bind(QueryField(st, env, flds[lineno], lineno),
              LAMBDA r : QueryFields(r.st, env, flds, lineno + 1,
                             Append(body, r.field_def), extra_defs \o r.defs))

(* The result is [err, class_defs, st], st being the generator's lists     *)
(* after the call.                                                         *)
_parse_query(env) ==
    Bind(_resolve_selection_set({}, env.frags, env.query.selection_set,
                                DefaultRootType, 1),
         LAMBDA r :
            Bind(QueryFields([public_names |-> <<env.query.name>>,
                              used_enums |-> <<>>,
                              used_fragments_names |-> r.used],
                             env, r.fields, 1, <<>>, <<>>),
                 LAMBDA loop :
                    [err |-> NoError,
                     class_defs |-> <<[generate_class_def(env.query.name)
                                       EXCEPT !.body = loop.body]>>
                                    \o loop.extra_defs,
                     st |-> loop.st]))

-----------------------------------------------------------------------------
(* The public methods *)

Nothing == [node |-> "None"]

generate_import_from(names, from_, level) ==
    [node |-> "ImportFrom", names |-> names, module |-> from_, level |-> level]

enums_module_name == "enums"

InitialImports(base) ==
    << generate_import_from(<<"Optional", "Union">>, "typing", 0),
       generate_import_from(<<"Field">>, "pydantic", 0),
       IF base # Nothing THEN base
       ELSE generate_import_from(<<"BaseModel">>, "pydantic", 0) >>

(* generate_expr(generate_method_call(name, "update_forward_refs")) *)
UpdateForwardRefs(class_def) ==
    [node |-> "Expr", object |-> class_def.name, method |-> "update_forward_refs"]

(* self.imports after generate *)
ImportsAfterGenerate(imps, enums) ==
    IF enums # <<>>
    THEN Append(imps, generate_import_from(enums, enums_module_name, 1))
    ELSE imps

ModuleOf(imps, defs) ==
    [node |-> "Module",
     body |-> imps \o defs \o [i \in DOMAIN defs |-> UpdateForwardRefs(defs[i])]]

(* graphql.print_ast: the printed form of a node stands for its text *)
print_ast(node) == [printed |-> node]

(* The set comprehension of lines 262-265 *)
PrintedFragments(frags, used) == {print_ast(frags[n]) : n \in used}

(* The orders in which a set may be iterated *)
Orders(S) ==
    {o \in [1..Cardinality(S) -> S] : \A i, j \in DOMAIN o : i # j => o[i] # o[j]}

-----------------------------------------------------------------------------
(* Inputs: two schemas with their registries, a fragment table, operations *)

ObjectType(fs) == [defined |-> TRUE, fields |-> fs]
NoType == [defined |-> FALSE, fields |-> <<>>]

FieldDef(target, ann) == [target |-> target, annotation |-> ann, value |-> None]

(* Query.user -> User, User {id, name, address: Address}, Address {city} *)
ScenarioSchema ==
    [query_type |-> ObjectType([user |-> Named("Object", "User")]),
     mutation_type |-> NoType]
ScenarioFields ==
    [User |-> [id |-> FieldDef("id", Optional(Plain("str"))),
               name |-> FieldDef("name", Optional(Plain("str"))),
               address |-> FieldDef("address", Optional(Quoted("Address")))],
     Address |-> [city |-> FieldDef("city", Optional(Plain("str")))]]
ScenarioClassTypes ==
    [Query |-> "OBJECT", User |-> "OBJECT", Address |-> "OBJECT"]

FullSchema ==
    [query_type |-> ObjectType(
        [user |-> Named("Object", "User"),
         friend |-> Named("Object", "User"),
         users |-> NonNull(ListOf(NonNull(Named("Object", "User")))),
         search |-> UnionOf("SearchResult", <<Named("Object", "User"),
                                              Named("Object", "Address")>>),
         node |-> Named("Interface", "Node"),
         color |-> Named("Enum", "Color"),
         count |-> NonNull(Named("Scalar", "Int"))]),
     mutation_type |-> ObjectType(
        [createUser |-> NonNull(Named("Object", "User"))])]
FullFields ==
    [User |-> [id |-> FieldDef("id", Plain("str")),
               name |-> FieldDef("name", Optional(Plain("str"))),
               address |-> FieldDef("address", Optional(Quoted("Address"))),
               friend |-> FieldDef("friend", Optional(Quoted("User"))),
               color |-> FieldDef("color", Optional(Plain("Color"))),
               favourite |-> [target |-> "favourite",
                              annotation |-> Optional(Plain("Color")),
                              value |-> "Field(alias=favouriteColor)"]],
     Address |-> [city |-> FieldDef("city", Optional(Plain("str"))),
                  owner |-> FieldDef("owner", Optional(Quoted("User")))],
     Node |-> [id |-> FieldDef("id", Plain("str"))]]
FullClassTypes ==
    [Query |-> "OBJECT", Mutation |-> "OBJECT", User |-> "OBJECT",
     Address |-> "OBJECT", Node |-> "INTERFACE", SearchResult |-> "UNION",
     Color |-> "ENUM"]

FullFragments ==
    [UserFields |-> FragmentDefinitionNode("UserFields", "User",
                        <<Leaf("name"), Leaf("color")>>),
     AddrFields |-> FragmentDefinitionNode("AddrFields", "Address",
                        <<Leaf("city")>>),
     UserWithAddr |-> FragmentDefinitionNode("UserWithAddr", "User",
                        <<Leaf("id"),
                          FieldNode("address", <<FragmentSpreadNode("AddrFields")>>)>>),
     Loop |-> FragmentDefinitionNode("Loop", "User",
                        <<Leaf("id"), FragmentSpreadNode("Loop")>>),
     RootFields |-> FragmentDefinitionNode("RootFields", "Query",
                        <<FieldNode("user", <<Leaf("id")>>)>>)]
NoFragments == <<>>

Environments ==
    { [schema |-> ScenarioSchema, fields |-> ScenarioFields,
       class_types |-> ScenarioClassTypes, frags |-> NoFragments,
       base |-> Nothing],
      [schema |-> FullSchema, fields |-> FullFields,
       class_types |-> FullClassTypes, frags |-> FullFragments,
       base |-> generate_import_from(<<"BaseModel">>, "base_model", 1)] }

(* Selection sets put under a field of type User *)
UserSelectionSets ==
    { <<Leaf("id")>>,
      <<Leaf("id"), Leaf("id")>>,
      <<Leaf("__typename"), Leaf("id")>>,
      <<Leaf("color"), Leaf("favourite")>>,
      <<Leaf("id"), Leaf("name"), FieldNode("address", <<Leaf("city")>>)>>,
      <<FieldNode("friend", <<FieldNode("friend", <<Leaf("name")>>)>>)>>,
      <<FieldNode("address", <<FieldNode("owner", <<Leaf("name")>>)>>)>>,
      <<FragmentSpreadNode("UserFields"), Leaf("id")>>,
      <<FragmentSpreadNode("UserWithAddr")>>,
      <<FragmentSpreadNode("Loop")>>,
      <<FragmentSpreadNode("Missing")>>,
      <<Leaf("id"), InlineFragmentNode("User", <<Leaf("name")>>),
        InlineFragmentNode("Address", <<Leaf("city")>>)>>,
      <<Leaf("id"), InlineFragmentNode("Address",
                        <<FragmentSpreadNode("AddrFields")>>)>>,
      <<InlineFragmentNode(None, <<Leaf("id")>>)>>,
      <<Leaf("city")>> }

(* The same, put under a second field of type User *)
FriendSelectionSets ==
    { <<Leaf("name")>>,
      <<FragmentSpreadNode("UserFields"), Leaf("id")>>,
      <<FieldNode("address", <<FragmentSpreadNode("AddrFields")>>)>> }

RootSelections ==
    {FieldNode("user", ss) : ss \in UserSelectionSets}
    \cup {FieldNode("friend", ss) : ss \in FriendSelectionSets}
    \cup { Leaf("color"), Leaf("count"), Leaf("__typename"),
           FieldNode("users", <<Leaf("name")>>),
           FieldNode("search", <<Leaf("__typename")>>),
           FieldNode("node", <<Leaf("id"),
                               InlineFragmentNode("User", <<Leaf("name")>>)>>),
           FieldNode("createUser", <<Leaf("id")>>),
           FragmentSpreadNode("RootFields"),
           InlineFragmentNode("Query", <<Leaf("count")>>) }

OperationNode(name, operation, selection_set) ==
    [name |-> name, operation |-> operation, selection_set |-> selection_set]

(* An operation without a name has name "" here (no name is empty). *)
OperationHeads ==
    { <<"GetUser", "query">>, <<"CreateUser", "mutation">>, <<"", "query">> }

OperationsOfLength(selections, n) ==
    { OperationNode(h[1], h[2], ss) :
        h \in OperationHeads,
        ss \in UNION {[1..k -> selections] : k \in 1..n} }

Operations == OperationsOfLength(RootSelections, MaxRootSel)

(* The selections the stepwise constructor is run on *)
RunSelections ==
    {FieldNode("user", ss) : ss \in
        { <<Leaf("id")>>,
          <<Leaf("city")>>,
          <<Leaf("color"), Leaf("favourite")>>,
          <<FieldNode("friend", <<FieldNode("friend", <<Leaf("name")>>)>>)>>,
          <<FieldNode("address", <<FieldNode("owner", <<Leaf("name")>>)>>)>>,
          <<FragmentSpreadNode("UserWithAddr")>>,
          <<FragmentSpreadNode("Loop")>>,
          <<FragmentSpreadNode("Missing")>>,
          <<Leaf("id"), InlineFragmentNode("User", <<Leaf("name")>>),
            InlineFragmentNode("Address", <<Leaf("city")>>)>>,
          <<InlineFragmentNode(None, <<Leaf("id")>>)>> }}
    \cup { Leaf("__typename"),
           FieldNode("friend", <<Leaf("name")>>),
           FieldNode("search", <<Leaf("__typename")>>),
           FragmentSpreadNode("RootFields") }

-----------------------------------------------------------------------------
(* The generator as a state machine: construction, then calls of the       *)
(* public methods.                                                         *)

Env == [schema |-> schema, fields |-> fields, class_types |-> class_types,
        frags |-> fragments_definitions, query |-> query]

Inputs(e, q) ==
    /\ schema = e.schema
    /\ fields = e.fields
    /\ class_types = e.class_types
    /\ fragments_definitions = e.frags
    /\ base_model_import = e.base
    /\ query = q

Unconstructed ==
    /\ status = "new"
    /\ error = NoError
    /\ imports = <<>>
    /\ public_names = <<>>
    /\ class_defs = <<>>
    /\ used_enums = <<>>
    /\ used_fragments_names = {}
    /\ returned = Nothing
    /\ calls = 0

Init ==
    /\ \E e \in Environments, q \in Operations : Inputs(e, q)
    /\ Unconstructed
    /\ stack = <<>>
    /\ annotation = Nothing
    /\ processed = Nothing

inputVars == <<schema, fields, class_types, query, fragments_definitions,
               base_model_import>>

(* QueryTypesGenerator.__init__ *)
Construct ==
    /\ status = "new"
    /\ IF query.name = ""
       THEN /\ status' = "failed"
            /\ error' = "NotSupported"
            /\ UNCHANGED <<imports, public_names, class_defs, used_enums,
                           used_fragments_names>>
       ELSE LET r == _parse_query(Env) IN
            IF Raises(r)
            THEN /\ status' = "failed"
                 /\ error' = r.err
                 /\ UNCHANGED <<imports, public_names, class_defs, used_enums,
                                used_fragments_names>>
            ELSE /\ status' = "ready"
                 /\ error' = NoError
                 /\ imports' = InitialImports(base_model_import)
                 /\ public_names' = r.st.public_names
                 /\ class_defs' = r.class_defs
                 /\ used_enums' = r.st.used_enums
                 /\ used_fragments_names' = r.st.used_fragments_names
    /\ UNCHANGED <<inputVars, returned, calls, stack, annotation, processed>>

(* QueryTypesGenerator.generate *)
generate ==
    /\ status = "ready"
    /\ calls < MaxCalls
    /\ imports' = ImportsAfterGenerate(imports, used_enums)
    /\ returned' = ModuleOf(imports', class_defs)
    /\ calls' = calls + 1
    /\ UNCHANGED <<inputVars, status, error, public_names, class_defs,
                   used_enums, used_fragments_names, stack, annotation,
                   processed>>

(* QueryTypesGenerator.get_operation_as_str *)
get_operation_as_str ==
    /\ status = "ready"
    /\ calls < MaxCalls
    /\ \E order \in Orders(PrintedFragments(fragments_definitions,
                                            used_fragments_names)) :
          returned' = [node |-> "str", parts |-> <<print_ast(query)>> \o order]
    /\ calls' = calls + 1
    /\ UNCHANGED <<inputVars, status, error, imports, public_names, class_defs,
                   used_enums, used_fragments_names, stack, annotation,
                   processed>>

Next == Construct \/ generate \/ get_operation_as_str

Spec == Init /\ [][Next]_vars

-----------------------------------------------------------------------------
(* _procces_annotation as a function of the type expression               *)
(* (specification SpecAnn)                                                 *)

AnnotationLeaves ==
    {Plain(n) : n \in {"User", "Color", "str"}}
    \cup {Quoted(n) : n \in {"User", "Color", "str"}}
    \cup {ConstantNode}

RECURSIVE AnnotationsOfDepth(_)
AnnotationsOfDepth(d) ==
    IF d = 0 THEN AnnotationLeaves
    ELSE LET sub == AnnotationsOfDepth(d - 1)
         IN  sub \cup {Optional(a) : a \in sub} \cup {List(a) : a \in sub}
                 \cup {Union(<<a, b>>) : a \in sub, b \in sub}

InitAnn ==
    /\ Inputs(CHOOSE e \in Environments : e.schema = FullSchema,
              OperationNode("GetUser", "query", <<Leaf("count")>>))
    /\ Unconstructed
    /\ stack = <<>>
    /\ annotation \in AnnotationsOfDepth(MaxAnnDepth)
    /\ processed = Nothing

(* One call of _procces_annotation on a generator that has recorded no     *)
(* enum yet.                                                               *)
ProcessAnnotation ==
    /\ processed = Nothing
    /\ LET r == _procces_annotation(class_types, query.name, used_enums,
                                    annotation, _walk_annotation(annotation))
       IN  /\ processed' = [node |-> "Processed", result |-> r]
           /\ used_enums' = IF Raises(r) THEN used_enums ELSE r.used_enums
    /\ UNCHANGED <<inputVars, status, error, imports, public_names, class_defs,
                   used_fragments_names, returned, calls, stack, annotation>>

NextAnn == ProcessAnnotation

SpecAnn == InitAnn /\ [][NextAnn]_vars

-----------------------------------------------------------------------------
(* The constructor step by step (specification SpecRun): every call of     *)
(* _resolve_selection_set and _generate_dependency_type_class is a frame   *)
(* of `stack`, every iteration of a loop a step.                           *)

ResolveFrame(selection_set, root_type) ==
    [fn |-> "resolve", selection_set |-> selection_set, root_type |-> root_type,
     i |-> 1, fields |-> <<>>]

(* A frame of _parse_query (fn = "parse") or of                            *)
(* _generate_dependency_type_class (fn = "dep").  pc is "enter" before the *)
(* name is looked up, "resolve" while the selection set is resolved,       *)
(* "loop" at the head of the field loop and "deps" inside the loop over    *)
(* field_type_names.                                                       *)
ClassFrame(fn, type_name, selection_set, pc) ==
    [fn |-> fn, type_name |-> type_name, selection_set |-> selection_set,
     pc |-> pc, flds |-> <<>>, lineno |-> 1, body |-> <<>>,
     extra_defs |-> <<>>, names |-> <<>>]

Machine ==
    [status |-> status, error |-> error, stack |-> stack,
     public_names |-> public_names, class_defs |-> class_defs,
     used_enums |-> used_enums, used_fragments_names |-> used_fragments_names]

Become(m) ==
    /\ status' = m.status
    /\ error' = m.error
    /\ stack' = m.stack
    /\ public_names' = m.public_names
    /\ class_defs' = m.class_defs
    /\ used_enums' = m.used_enums
    /\ used_fragments_names' = m.used_fragments_names
    /\ UNCHANGED <<inputVars, imports, returned, calls, annotation, processed>>

(* An exception leaves the constructor: no generator exists. *)
Failed(e) ==
    [status |-> "failed", error |-> e, stack |-> <<>>, public_names |-> <<>>,
     class_defs |-> <<>>, used_enums |-> <<>>, used_fragments_names |-> {}]

(* A call: the callee's frame is pushed, unless the depth of calls passes  *)
(* the interpreter's limit.                                                *)
Pushed(m, frame) ==
    IF Len(m.stack) > RecursionLimit THEN Failed("RecursionError")
    ELSE [m EXCEPT !.stack = Append(@, frame)]

Top == stack[Len(stack)]
WithTop(m, frame) == [m EXCEPT !.stack[Len(m.stack)] = frame]
Running == status = "running" /\ stack # <<>>

(* Mutation: the loop over field_type_names does not advance *)
RemainingNamesStuck(names) == names

(* The names the loop over field_type_names has yet to visit *)
RemainingNames(names) == Tail(names)

InitRun ==
    /\ \E e \in Environments, q \in OperationsOfLength(RunSelections, MaxRunSel) :
          Inputs(e, q)
    /\ Unconstructed
    /\ stack = <<>>
    /\ annotation = Nothing
    /\ processed = Nothing

(* __init__ up to the first call of _parse_query *)
Enter ==
    /\ status = "new"
    /\ Become(IF query.name = "" THEN Failed("NotSupported")
              ELSE [Machine EXCEPT
                      !.status = "running",
                      !.public_names = <<query.name>>,
                      !.stack = << ClassFrame("parse", "", query.selection_set,
                                              "resolve"),
                                   ResolveFrame(query.selection_set,
                                                DefaultRootType) >>])

(* One iteration of the loop of _resolve_selection_set *)
ResolveStep ==
    /\ Running
    /\ Top.fn = "resolve"
    /\ Top.i <= Len(Top.selection_set)
    /\ LET f == Top
           selection == f.selection_set[f.i]
           skip == WithTop(Machine, [f EXCEPT !.i = @ + 1])
       IN  Become(
             CASE selection.kind = "Field" ->
                    WithTop(Machine, [f EXCEPT !.i = @ + 1,
                                               !.fields = Append(@, selection)])
               [] selection.kind = "FragmentSpread" ->
                    IF selection.name \notin DOMAIN fragments_definitions
                    THEN Failed("KeyError")
                    ELSE Pushed([Machine EXCEPT !.used_fragments_names =
                                                   @ \cup {selection.name}],
                                ResolveFrame(
                                    fragments_definitions[selection.name]
                                        .selection_set,
                                    f.root_type))
               [] selection.kind = "InlineFragment" ->
                    IF selection.type_condition = None
                    THEN Failed("AttributeError")
                    ELSE IF InlineFragmentApplies(selection, f.root_type)
                    THEN Pushed(Machine, ResolveFrame(selection.selection_set,
                                                      f.root_type))
                    ELSE skip)

(* _resolve_selection_set returns `fields` to its caller *)
ResolveReturn ==
    /\ Running
    /\ Top.fn = "resolve"
    /\ Top.i > Len(Top.selection_set)
    /\ LET caller == stack[Len(stack) - 1]
           resumed ==
               IF caller.fn = "resolve"
               THEN [caller EXCEPT !.fields = @ \o Top.fields, !.i = @ + 1]
               ELSE [caller EXCEPT !.flds = Top.fields, !.pc = "loop",
                                   !.lineno = 1]
       IN  Become([Machine EXCEPT !.stack =
                      Append(SubSeq(stack, 1, Len(stack) - 2), resumed)])

(* The definition (target, ann, value) of the field a loop is at: from the *)
(* schema in _parse_query, from the field registry otherwise.              *)
FieldDefinitionFor(frame, field) ==
    IF frame.fn = "parse"
    THEN Bind(_get_field_type_from_schema(schema, query.operation, field.name),
              LAMBDA t : [err |-> NoError,
                          def |-> [target |-> field.name,
                                   annotation |-> parse_field_type(t.type, TRUE),
                                   value |-> None]])
    ELSE _get_schema_field_definition(fields, frame.type_name, field.name)

(* The body of a field loop up to `class_def.body.append(field_def)` *)
FieldStep ==
    /\ Running
    /\ Top.fn \in {"parse", "dep"}
    /\ Top.pc = "loop"
    /\ Top.lineno <= Len(Top.flds)
    /\ LET f == Top
           field == f.flds[f.lineno]
           d == FieldDefinitionFor(f, field)
       IN  Become(
             IF Raises(d) THEN Failed(d.err)
             ELSE LET names == _walk_annotation(d.def.annotation)
                      p == _procces_annotation(class_types, query.name,
                               used_enums, d.def.annotation, names)
                  IN  IF Raises(p) THEN Failed(p.err)
                      ELSE WithTop([Machine EXCEPT !.used_enums = p.used_enums],
                               [f EXCEPT
                                  !.body = Append(@, AnnAssign(d.def.target,
                                               p.ann, d.def.value, f.lineno)),
                                  !.names = IF field.selection_set # NoSelectionSet
                                            THEN names ELSE <<>>,
                                  !.pc = "deps"]))

(* One iteration of the loop over field_type_names, or its end *)
DepsStep ==
    /\ Running
    /\ Top.fn \in {"parse", "dep"}
    /\ Top.pc = "deps"
    /\ LET f == Top IN
       Become(IF f.names = <<>>
              THEN WithTop(Machine, [f EXCEPT !.pc = "loop", !.lineno = @ + 1])
              ELSE Pushed(WithTop(Machine,
                              [f EXCEPT !.names = RemainingNames(@)]),
                          ClassFrame("dep", Head(f.names),
                                     f.flds[f.lineno].selection_set, "enter")))

(* _generate_dependency_type_class up to its call of                       *)
(* _resolve_selection_set, or its `return None`                            *)
DepEnter ==
    /\ Running
    /\ Top.fn = "dep"
    /\ Top.pc = "enter"
    /\ LET f == Top
           name == DependencyClassName(query.name, f.type_name)
       IN  Become(
             IF IsRegistered(public_names, name)
             THEN [Machine EXCEPT !.stack = SubSeq(stack, 1, Len(stack) - 1)]
             ELSE Pushed(WithTop([Machine EXCEPT !.public_names =
                                                    Register(@, name)],
                                 [f EXCEPT !.pc = "resolve"]),
                         ResolveFrame(f.selection_set, f.type_name)))

(* The end of a field loop: _generate_dependency_type_class returns its    *)
(* definitions, _parse_query stores them and the constructor ends.         *)
ClassReturn ==
    /\ Running
    /\ Top.fn \in {"parse", "dep"}
    /\ Top.pc = "loop"
    /\ Top.lineno > Len(Top.flds)
    /\ LET f == Top
           name == IF f.fn = "parse" THEN query.name
                   ELSE DependencyClassName(query.name, f.type_name)
           defs == <<[generate_class_def(name) EXCEPT !.body = f.body]>>
                   \o f.extra_defs
       IN  Become(
             IF f.fn = "parse"
             THEN [Machine EXCEPT !.status = "ready", !.class_defs = defs,
                                  !.stack = <<>>]
             ELSE LET caller == stack[Len(stack) - 1]
                  IN  [Machine EXCEPT !.stack =
                          Append(SubSeq(stack, 1, Len(stack) - 2),
                                 [caller EXCEPT !.extra_defs = @ \o defs])])

NextRun ==
    \/ Enter
    \/ ResolveStep
    \/ ResolveReturn
    \/ FieldStep
    \/ DepsStep
    \/ DepEnter
    \/ ClassReturn

(* The code is sequential and never waits: a step that can be taken is     *)
(* taken.                                                                  *)
SpecRun == InitRun /\ [][NextRun]_vars /\ WF_vars(NextRun)

-----------------------------------------------------------------------------
(* Notions the properties are stated with *)

Targets(body) == [i \in DOMAIN body |-> body[i].target]
FieldNames(flds) == [i \in DOMAIN flds |-> flds[i].name]
ClassNames(defs) == [i \in DOMAIN defs |-> defs[i].name]
ClassNamed(defs, name) == CHOOSE c \in SeqToSet(defs) : c.name = name

Constructed == status = "ready"

(* The fragment names spread anywhere in a selection set *)
RECURSIVE SpreadsIn(_)
SpreadsIn(selection_set) ==
    IF selection_set = <<>> THEN {}
    ELSE LET s == Head(selection_set)
         IN  (IF s.kind = "FragmentSpread" THEN {s.name}
              ELSE SpreadsIn(s.selection_set))
             \cup SpreadsIn(Tail(selection_set))

RECURSIVE FragmentClosure(_, _)
FragmentClosure(names, frags) ==
    LET more == names \cup UNION {SpreadsIn(frags[n].selection_set) :
                                     n \in names \cap DOMAIN frags}
    IN  IF more = names THEN names ELSE FragmentClosure(more, frags)

(* The fragments an operation uses, directly or through used fragments *)
FragmentsUsedBy(q, frags) == FragmentClosure(SpreadsIn(q.selection_set), frags)

(* The flattening of a selection set selected on type T *)
RECURSIVE ReferenceFlattening(_, _, _)
ReferenceFlattening(selection_set, T, frags) ==
    IF selection_set = <<>> THEN <<>>
    ELSE LET s == Head(selection_set)
         IN  (CASE s.kind = "Field" -> <<s>>
                [] s.kind = "FragmentSpread" ->
                      ReferenceFlattening(frags[s.name].selection_set, T, frags)
                [] s.kind = "InlineFragment" ->
                      IF s.type_condition = T
                      THEN ReferenceFlattening(s.selection_set, T, frags)
                      ELSE <<>>)
             \o ReferenceFlattening(Tail(selection_set), T, frags)

(* A fragment used by the operation spreads itself, directly or not *)
UsesCyclicFragment(q, frags) ==
    \E n \in FragmentsUsedBy(q, frags) \cap DOMAIN frags :
        n \in FragmentClosure(SpreadsIn(frags[n].selection_set), frags)

RECURSIVE HasInlineFragment(_)
HasInlineFragment(selection_set) ==
    \E i \in DOMAIN selection_set :
        \/ selection_set[i].kind = "InlineFragment"
        \/ /\ selection_set[i].kind = "Field"
           /\ HasInlineFragment(selection_set[i].selection_set)

(* Operations of fields and spreads of fragments of the table, none of     *)
(* them spreading itself                                                   *)
PlainDocument(q, frags) ==
    /\ FragmentsUsedBy(q, frags) \subseteq DOMAIN frags
    /\ ~UsesCyclicFragment(q, frags)
    /\ ~HasInlineFragment(q.selection_set)
    /\ \A n \in FragmentsUsedBy(q, frags) :
          ~HasInlineFragment(frags[n].selection_set)

RootTypeName(q) == IF q.operation = "query" THEN "Query" ELSE "Mutation"

EmittedFields == UNION {SeqToSet(c.body) : c \in SeqToSet(class_defs)}

(* The type names a field's emitted type expression references *)
Referenced(field_def) == SeqToSet(_walk_annotation(field_def.annotation))

(* The enum names the emitted fields reference *)
EnumsReferenced ==
    {n \in UNION {Referenced(f) : f \in EmittedFields} :
        Get(class_types, n) = "ENUM"}

EnumImports(module) ==
    SelectSeq(module.body,
              LAMBDA stmt : stmt.node = "ImportFrom"
                            /\ stmt.module = enums_module_name)

(* The generator's lists, as the recursion threads them *)
Lists == [public_names |-> public_names, used_enums |-> used_enums,
          used_fragments_names |-> used_fragments_names]

(* Root field selections that carry a selection set *)
IsNestedField(s) == s.kind = "Field" /\ s.selection_set # NoSelectionSet

-----------------------------------------------------------------------------
(* Properties of the constructed generator (specification Spec) *)

(* C1: no two emitted class definitions share a name; the root is named    *)
(* after the operation, every other class OperationName + a type name;     *)
(* the emitted names are the registered names; and synthesizing a name     *)
(* that is registered returns None, adds no definition and registers       *)
(* nothing.                                                                *)
C1_UniqueNames ==
    Constructed =>
        /\ \A i, j \in DOMAIN class_defs :
              i # j => class_defs[i].name # class_defs[j].name
        /\ class_defs[1].name = query.name
        /\ \A i \in 2..Len(class_defs) :
              \E T \in DOMAIN class_types :
                  class_defs[i].name = query.name \o T
        /\ ClassNames(class_defs) = public_names
        /\ \A T \in DOMAIN class_types, ss \in UserSelectionSets :
              IsRegistered(public_names, query.name \o T) =>
                  LET r == _generate_dependency_type_class(Lists, Env, T, ss, 1)
                  IN  r.err = NoError /\ r.none /\ r.defs = <<>> /\ r.st = Lists

(* C1's case: two fields of the same type, each with a selection set, so   *)
(* that the second synthesis meets a registered name.                      *)
C1_Witness ==
    /\ Constructed
    /\ Len(class_defs) >= 2
    /\ \E i, j \in DOMAIN query.selection_set :
          /\ i < j
          /\ IsNestedField(query.selection_set[i])
          /\ IsNestedField(query.selection_set[j])
          /\ query.selection_set[i].name = "user"
          /\ query.selection_set[j].name = "friend"

(* C2 as claimed: the text holds the operation and the definitions of      *)
(* exactly the fragments the operation transitively uses (stated for       *)
(* operations of fields and spreads of fragments of the table alone).      *)
C2_RenderedFragments ==
    (/\ Constructed
     /\ returned.node = "str"
     /\ PlainDocument(query, fragments_definitions))
    => /\ returned.parts[1] = print_ast(query)
       /\ {returned.parts[i] : i \in 2..Len(returned.parts)}
          = {print_ast(fragments_definitions[n]) :
                n \in FragmentsUsedBy(query, fragments_definitions)}

(* The scenario of C3 *)
ScenarioOperation ==
    OperationNode("GetUser", "query",
        <<FieldNode("user", <<Leaf("id"), Leaf("name"),
                              FieldNode("address", <<Leaf("city")>>)>>)>>)
IsScenario ==
    /\ schema = ScenarioSchema
    /\ fields = ScenarioFields
    /\ class_types = ScenarioClassTypes
    /\ query = ScenarioOperation

ScenarioShape(third) ==
    /\ ClassNames(class_defs) = <<"GetUser", "GetUserUser", third>>
    /\ Targets(class_defs[1].body) = <<"user">>
    /\ Referenced(class_defs[1].body[1]) = {"GetUserUser"}
    /\ Targets(class_defs[2].body) = <<"id", "name", "address">>
    /\ Referenced(class_defs[2].body[3]) = {third}
    /\ Targets(class_defs[3].body) = <<"city">>

(* C3 as claimed: the scenario emits GetUser, GetUserUser and              *)
(* GetUserUserAddress.                                                     *)
C3_ScenarioAsClaimed ==
    (IsScenario /\ status # "new") =>
        Constructed /\ ScenarioShape("GetUserUserAddress")

(* C3 amended: the scenario emits GetUser {user: GetUserUser}, GetUserUser *)
(* {id, name, address: GetUserAddress} and GetUserAddress {city}, in that  *)
(* order: the nested name is OperationName + type name.                    *)
C3_Scenario ==
    (IsScenario /\ status # "new") =>
        Constructed /\ ScenarioShape("GetUserAddress")

C3_Witness == IsScenario /\ Constructed /\ Len(class_defs) = 3

(* C4 as claimed, at the operation's root: an operation that selects only  *)
(* __typename is generated, with string-typed fields.                      *)
C4_TypenameAtRoot ==
    (/\ status # "new"
     /\ query.name # ""
     /\ \A i \in DOMAIN query.selection_set :
           query.selection_set[i] = Leaf("__typename"))
    => /\ Constructed
       /\ \A i \in DOMAIN class_defs[1].body :
             /\ class_defs[1].body[i].target = "__typename"
             /\ class_defs[1].body[i].annotation = Plain("str")

(* C5 as claimed: the module imports from the enum module iff an emitted   *)
(* field references an enum, and the import lists each such enum once.     *)
C5_EnumImport ==
    (Constructed /\ returned.node = "Module") =>
        LET imps == EnumImports(returned) IN
        /\ (EnumsReferenced = {}) <=> (imps = <<>>)
        /\ Len(imps) <= 1
        /\ \A k \in DOMAIN imps :
              /\ SeqToSet(imps[k].names) = EnumsReferenced
              /\ Len(imps[k].names) = Cardinality(EnumsReferenced)

(* C7 as claimed, for the root selection set: the root class has one field *)
(* per selection of the flattening against the operation's root type.      *)
C7_RootFlattening ==
    Constructed =>
        Targets(class_defs[1].body)
        = FieldNames(ReferenceFlattening(query.selection_set,
                         RootTypeName(query), fragments_definitions))

(* C9 as claimed: every call of generate returns the module the first     *)
(* call returns: the constructor's imports, the enum import if an enum was *)
(* recorded, the class definitions and their finalizations.                *)
C9_GenerateRepeatable ==
    (Constructed /\ returned.node = "Module") =>
        returned = ModuleOf(ImportsAfterGenerate(
                                InitialImports(base_model_import), used_enums),
                            class_defs)

(* C10 as claimed, for the fields of the root selection set: the class     *)
(* OperationName+T a field's type expression references has one field per  *)
(* selection resolved from that field's selection set against T.           *)
C10_NestedFieldsEmitted ==
    Constructed =>
        \A i \in DOMAIN class_defs[1].body :
            LET flat == ReferenceFlattening(query.selection_set, DefaultRootType,
                                            fragments_definitions)
            IN  IsNestedField(flat[i]) =>
                \A T \in DOMAIN fields :
                    (query.name \o T) \in Referenced(class_defs[1].body[i]) =>
                        LET r == _resolve_selection_set({}, fragments_definitions,
                                     flat[i].selection_set, T, 1)
                        IN  /\ ~Raises(r)
                            /\ Targets(ClassNamed(class_defs, query.name \o T).body)
                               = FieldNames(r.fields)

-----------------------------------------------------------------------------
(* Properties of _procces_annotation (specification SpecAnn) *)

RECURSIVE IsTypeExpression(_)
IsTypeExpression(ann) ==
    CASE ann.node = "Name" -> TRUE
      [] ann.node = "Subscript" ->
            IF ann.slice.node = "Tuple"
            THEN \A i \in DOMAIN ann.slice.elts :
                     IsTypeExpression(ann.slice.elts[i])
            ELSE IsTypeExpression(ann.slice)
      [] OTHER -> FALSE

(* The expression with every named leaf prefixed, its quoting kept *)
RECURSIVE ReferencePrefixed(_, _)
ReferencePrefixed(ann, prefix) ==
    CASE ann.node = "Name" ->
            IF StartsWithQuote(ann.id) /\ EndsWithQuote(ann.id)
            THEN Quoted(prefix \o StripQuotes(ann.id))
            ELSE Plain(prefix \o StripQuotes(ann.id))
      [] ann.node = "Subscript" ->
            IF ann.slice.node = "Tuple"
            THEN Subscript(ann.value,
                     TupleOf([i \in DOMAIN ann.slice.elts |->
                                 ReferencePrefixed(ann.slice.elts[i], prefix)]))
            ELSE Subscript(ann.value, ReferencePrefixed(ann.slice, prefix))

NamesObjectOrInterface(ann) ==
    \E n \in SeqToSet(_walk_annotation(ann)) :
        Get(class_types, n) \in {"OBJECT", "INTERFACE"}

(* C6 as claimed: an expression that names an object or interface type is  *)
(* rewritten with every named leaf, quoted or not, prefixed; any other     *)
(* expression is returned as it is.                                        *)
C6_Rewriting ==
    (processed.node = "Processed" /\ IsTypeExpression(annotation)) =>
        /\ processed.result.err = NoError
        /\ processed.result.ann =
              IF NamesObjectOrInterface(annotation)
              THEN ReferencePrefixed(annotation, query.name)
              ELSE annotation

-----------------------------------------------------------------------------
(* Properties of the stepwise constructor (specification SpecRun) *)

Finished == status \in {"ready", "failed"}

(* The stepwise constructor ends as _parse_query, computed as a whole,     *)
(* does.                                                                   *)
RunAgrees ==
    Finished =>
        LET r == IF query.name = "" THEN Raised("NotSupported")
                 ELSE _parse_query(Env)
        IN  IF Raises(r) THEN status = "failed" /\ error = r.err
            ELSE /\ status = "ready"
                 /\ class_defs = r.class_defs
                 /\ Lists = r.st

(* C8: the constructor eventually completes or fails with an error, also   *)
(* with self-referential types selected at every level and with fragments  *)
(* that spread themselves; and only a fragment that spreads itself takes   *)
(* the recursion to the interpreter's limit.                               *)
C8_Terminates ==
    /\ <>Finished
    /\ [](error = "RecursionError" =>
              UsesCyclicFragment(query, fragments_definitions))

(* C8's case: a self-referential type selected at every level; the second  *)
(* and third synthesis of User met the registered name.                    *)
C8_Witness ==
    /\ status = "ready"
    /\ query.selection_set =
          <<FieldNode("user",
               <<FieldNode("friend",
                    <<FieldNode("friend", <<Leaf("name")>>)>>)>>)>>
    /\ ClassNames(class_defs) = <<"GetUser", "GetUserUser">>

====
